---------------------------- MODULE Spec2Model ----------------------------
(***************************************************************************)
(* A model of namespace-analyzer.py: the identity pattern of process_apks, *)
(* the converter adapter convert_to_jar, the recursive walk                *)
(* extract_namespaces, the per-package pipeline process_apk, the batch     *)
(* loop process_apks with the two inserts, and main's single commit.       *)
(*                                                                         *)
(* File names are sequences of one-character strings so that the pattern   *)
(* can be matched position by position; namespaces are strings built with  *)
(* \o exactly as the source builds them with format().                     *)
(***************************************************************************)
EXTENDS Naturals, Integers, Sequences, FiniteSets, Bags, TLC

VARIABLES
    pc,          \* position of the running function
    items,       \* os.listdir(config.path): sequence of [name, isfile]
    current,     \* process_apks: 1-based position in items
    match,       \* apk_regex.match(name) of the entry being handled
    scratch,     \* scratch directories that exist under config.working_directory
    made,        \* number of scratch directories created so far
    fs,          \* the directory tree below the directory being walked
    result,      \* value returned by extract_namespaces / process_apk
    exc,         \* exception in flight, "none" when there is none
    txn_apks,    \* rows of table apks inserted and not yet committed
    txn_ns,      \* rows of table namespaces inserted and not yet committed
    disk_apks,   \* rows of table apks made durable by commit
    disk_ns,     \* rows of table namespaces made durable by commit
    events,      \* history: the calls made so far, in order
    proc,        \* the converter process as observed: [elapsed, exit, output]
    conv,        \* outcome of convert_to_jar
    fname        \* a file name handed to the identity pattern

vars == <<pc, items, current, match, scratch, made, fs, result, exc, txn_apks,
          txn_ns, disk_apks, disk_ns, events, proc, conv, fname>>

-----------------------------------------------------------------------------
(* Bounds of the model.                                                    *)

MaxItems == 3        \* entries in the input directory
MaxEntries == 4      \* entries in a walked directory tree
MaxDepth == 2        \* depth of a walked directory tree
MaxLines == 2        \* lines of converter output

-----------------------------------------------------------------------------
(* Characters and strings.                                                 *)

Digits == {"0", "1", "2", "3", "4", "5", "6", "7", "8", "9"}

NL == "\n"

IsDigit(c) == c \in Digits

\* re.IGNORECASE on the letters of the literal "apk".
Fold(c) == CASE c = "A" -> "a" [] c = "P" -> "p" [] c = "K" -> "k" [] OTHER -> c

NoMatch == [ok |-> FALSE, g0 |-> <<>>, g1 |-> <<>>, g2 |-> <<>>, g3 |-> <<>>]

\* \d{4}_\d{2}_\d{2} at positions p .. p+9 of s.
DateAt(s, p) ==
    /\ p + 9 <= Len(s)
    /\ \A k \in {0, 1, 2, 3, 5, 6, 8, 9} : IsDigit(s[p + k])
    /\ s[p + 4] = "_"
    /\ s[p + 7] = "_"

\* \.apk at positions p .. p+3 of s, letters compared case-insensitively.
SuffixAt(s, p) ==
    /\ p + 3 <= Len(s)
    /\ s[p] = "."
    /\ Fold(s[p + 1]) = "a"
    /\ Fold(s[p + 2]) = "p"
    /\ Fold(s[p + 3]) = "k"

\* $ without re.MULTILINE: at the end of the string, or just before a
\* newline that is the last character of the string.
DollarAt(s, q) ==
    \/ q = Len(s)
    \/ q = Len(s) - 1 /\ s[Len(s)] = NL

\* One way for ^([^-]+)-?(\d*)?-(\d{4}_\d{2}_\d{2})\.apk$ to match s:
\* group 1 is s[1..i], the optional hyphen is taken (hy = 1) or not
\* (hy = 0), group 2 has d characters.
MatchesAs(s, i, hy, d) ==
    LET p == i + hy + d + 2      \* first character of the date
    IN  /\ i >= 1
        /\ p + 13 <= Len(s)
        /\ \A k \in 1..i : s[k] # "-"
        /\ hy = 1 => s[i + 1] = "-"
        /\ \A k \in (i + hy + 1)..(i + hy + d) : IsDigit(s[k])
        /\ s[p - 1] = "-"
        /\ DateAt(s, p)
        /\ SuffixAt(s, p + 10)
        /\ DollarAt(s, p + 13)

\* Every way for the pattern to match s.  What follows group 2 has a fixed
\* length of 15 characters and $ admits two end positions, so the length of
\* group 2 is Len(s) - 15 - i - hy, or one less.
Candidates(s) ==
    {c \in {<<i, hy, Len(s) - 15 - i - hy - nl>> : i \in 1..Len(s), hy \in {0, 1}, nl \in {0, 1}} :
        c[3] >= 0 /\ MatchesAs(s, c[1], c[2], c[3])}

\* The backtracking order of the three greedy quantifiers: the longest
\* group 1 first, then the hyphen taken, then the longest group 2.
Before(c, e) ==
    \/ c[1] > e[1]
    \/ c[1] = e[1] /\ c[2] > e[2]
    \/ c[1] = e[1] /\ c[2] = e[2] /\ c[3] >= e[3]

apk_regex_match(s) ==
    IF Candidates(s) = {} THEN NoMatch
    ELSE LET c == CHOOSE c \in Candidates(s) : \A e \in Candidates(s) : Before(c, e)
             i == c[1]
             b == c[1] + c[2]
             p == c[1] + c[2] + c[3] + 2
         IN  [ok |-> TRUE,
              g0 |-> SubSeq(s, 1, p + 13),
              g1 |-> SubSeq(s, 1, i),
              g2 |-> SubSeq(s, b + 1, b + c[3]),
              g3 |-> SubSeq(s, p, p + 9)]


-----------------------------------------------------------------------------
(* convert_to_jar: the converter adapter.                                  *)

Timeout == 60

MarkerLine == "Detail Error Information in File ./classes-error.zip"

OutputLines == {"dex2jar classes.dex -> classes.jar", MarkerLine, "WARN: ignored"}

ExitCodes == {0, 1, 2}

Elapsed == {1, 61}

Outputs == UNION {[1..n -> OutputLines] : n \in 0..MaxLines}

ConverterRuns == [elapsed : Elapsed, exit : ExitCodes, output : Outputs]

NoProc == [elapsed |-> 0, exit |-> 0, output |-> <<>>]

NoConv == [exc |-> "none", value |-> "none"]

\* b'Detail Error Information in File' in output.  The marker holds no
\* newline, so it occurs in the output iff it occurs in one of its lines.
ContainsMarker(output) == \E k \in 1..Len(output) : output[k] = MarkerLine

\* subprocess.check_output(cmd, stderr=subprocess.STDOUT, timeout=60)
check_output(p) ==
    IF p.elapsed > Timeout THEN [exc |-> "TimeoutExpired", value |-> "none"]
    ELSE IF p.exit # 0 THEN [exc |-> "CalledProcessError", value |-> "none"]
    ELSE [exc |-> "none", value |-> p.output]

\* convert_to_jar without the check of the output for the marker.
convert_to_jar_trusts_exit(p) ==
    LET out == check_output(p)
    IN  IF out.exc # "none" THEN out
        ELSE [exc |-> "none", value |-> "classes.jar"]

convert_to_jar(p) ==
    LET out == check_output(p)
    IN  IF out.exc # "none" THEN out
        ELSE IF ContainsMarker(out.value)
             THEN [exc |-> "CalledProcessError", value |-> "none"]
             ELSE [exc |-> "none", value |-> "classes.jar"]

-----------------------------------------------------------------------------
(* Directory trees and extract_namespaces.                                 *)
(* A tree is the set of the entries below its root, each with the path of  *)
(* names leading to it and whether it is a directory.                      *)

EntryNames == {"a", "b", "c"}

Paths == UNION {[1..n -> EntryNames] : n \in 1..MaxDepth}

Entries == [path : Paths, isdir : BOOLEAN]

Parent(p) == SubSeq(p, 1, Len(p) - 1)

isdir(t, p) == [path |-> p, isdir |-> TRUE] \in t

\* An entry can be created in t when its name is free and its parent is the
\* root or a directory of t.
CanAdd(t, e) ==
    /\ \A x \in t : x.path # e.path
    /\ Len(e.path) = 1 \/ isdir(t, Parent(e.path))

RECURSIVE TreesUpTo(_)
TreesUpTo(k) ==
    IF k = 0 THEN {{}}
    ELSE LET T == TreesUpTo(k - 1)
         IN  T \cup {x[1] \cup {x[2]} : x \in {y \in T \X Entries : CanAdd(y[1], y[2])}}

Trees == TreesUpTo(MaxEntries)

\* os.listdir(source_path)
listdir(t, p) ==
    {e.path[Len(p) + 1] : e \in {x \in t : /\ Len(x.path) = Len(p) + 1
                                          /\ SubSeq(x.path, 1, Len(p)) = p}}

\* extract_namespaces handing new_namespace down without the separator.
RECURSIVE extract_namespaces_nodot(_, _, _)
extract_namespaces_nodot(t, source_path, base_namespace) ==
    UNION {LET full_path == Append(source_path, entry)
               new_namespace == base_namespace \o entry
           IN  IF isdir(t, full_path)
               THEN {new_namespace}
                        \cup extract_namespaces_nodot(t, full_path, new_namespace)
               ELSE {}
           : entry \in listdir(t, source_path)}

RECURSIVE extract_namespaces(_, _, _)
extract_namespaces(t, source_path, base_namespace) ==
    UNION {LET full_path == Append(source_path, entry)
               new_namespace == base_namespace \o entry
           IN  IF isdir(t, full_path)
               THEN {new_namespace}
                        \cup extract_namespaces(t, full_path, new_namespace \o ".")
               ELSE {}
           : entry \in listdir(t, source_path)}

-----------------------------------------------------------------------------
(* Inputs: file names and directory listings.                              *)

Date1 == <<"2", "0", "2", "0", "_", "0", "1", "_", "0", "1">>

Date2 == <<"2", "0", "2", "1", "_", "1", "2", "_", "3", "1">>

ShortDate == <<"2", "0", "2", "_", "0", "1", "_", "0", "1">>

HyphenDate == <<"2", "0", "2", "0", "-", "0", "1", "-", "0", "1">>

LetterDate == <<"2", "0", "2", "0", "_", "0", "1", "_", "0", "x">>

\* File names handed to the identity pattern: every concatenation of a
\* head, a separator part, a date part and a tail, well-formed or not.
NameHeads == {<<"a">>, <<"a", "7">>, <<"7">>, <<>>, <<"a", "-", "b">>, <<NL>>, <<"a", ".">>}

NameMids == {<<"-">>, <<"-", "7", "-">>, <<"-", "4", "2", "-">>, <<"-", "-">>,
             <<"-", "7", "x", "-">>, <<"-", "x", "-">>, <<>>, <<"_">>}

NameDates == {Date1, Date2, ShortDate, HyphenDate, LetterDate}

NameTails == {<<".", "a", "p", "k">>, <<".", "A", "P", "K">>, <<".", "a", "P", "k">>,
              <<".", "a", "p", "k", NL>>, <<".", "a", "p", "k", NL, NL>>,
              <<".", "a", "p", "k", "s">>, <<"x", "a", "p", "k">>,
              <<".", "z", "i", "p">>, <<".", "a", "p", "k", ".">>, <<>>}

FileNames == {h \o m \o d \o t : h \in NameHeads, m \in NameMids, d \in NameDates, t \in NameTails}

NameA == <<"a">> \o <<"-">> \o Date1 \o <<".", "a", "p", "k">>

NameA7 == <<"a">> \o <<"-", "7", "-">> \o Date2 \o <<".", "A", "P", "K">>

NameB == <<"b">> \o <<"-">> \o Date1 \o <<".", "a", "p", "k">>

NameReadme == <<"R", "E", "A", "D", "M", "E">>

NameDir == <<"c">> \o <<"-">> \o Date1 \o <<".", "a", "p", "k">>

\* Entries found in the input directory of a batch: three packages (two of
\* them versions of the same application), a file that is no package, and
\* a directory whose name matches the pattern.
DirEntries ==
    {[name |-> NameA, isfile |-> TRUE],
     [name |-> NameA7, isfile |-> TRUE],
     [name |-> NameB, isfile |-> TRUE],
     [name |-> NameReadme, isfile |-> TRUE],
     [name |-> NameDir, isfile |-> FALSE]}

\* os.listdir returns each name of the directory once, in arbitrary order.
Listings ==
    {l \in UNION {[1..n -> DirEntries] : n \in 0..MaxItems} :
        \A i, j \in 1..Len(l) : i # j => l[i].name # l[j].name}

\* What the converter does in a batch: success, a non-zero exit, a timeout,
\* and a zero exit with the marker in the output.
BatchRuns ==
    {[elapsed |-> 1, exit |-> 0, output |-> <<"dex2jar classes.dex -> classes.jar">>],
     [elapsed |-> 1, exit |-> 1, output |-> <<>>],
     [elapsed |-> 61, exit |-> 0, output |-> <<>>],
     [elapsed |-> 1, exit |-> 0, output |-> <<MarkerLine>>]}

\* Contents of classes.jar in a batch.
JarEmpty == {}

JarCom ==
    {[path |-> <<"com">>, isdir |-> TRUE],
     [path |-> <<"com", "lib">>, isdir |-> TRUE],
     [path |-> <<"com", "lib", "A.class">>, isdir |-> FALSE],
     [path |-> <<"META-INF">>, isdir |-> TRUE]}

JarTrees == {JarEmpty, JarCom}

DexFile == [path |-> <<"classes.dex">>, isdir |-> FALSE]

JarFile == [path |-> <<"classes.jar">>, isdir |-> FALSE]

-----------------------------------------------------------------------------
(* The batch: main, process_apks, process_apk, insert_apk,                 *)
(* insert_namespaces.                                                      *)

Event(op, n) == [op |-> op, item |-> current, n |-> n]

Log(op, n) == events' = Append(events, Event(op, n))

\* Line 73: os.path.isfile(apk_path) and match
IsPackage(e) == e.isfile /\ apk_regex_match(e.name).ok

\* insert_apk: INSERT INTO apks (id, date, filename)
ApkRow(m) == [id |-> m.g1, date |-> m.g3, filename |-> m.g0]

\* insert_namespaces: one INSERT INTO namespaces (apk_id, body) per namespace
NamespaceRows(apk_id, namespaces) ==
    SetToBag({[apk_id |-> apk_id, body |-> ns] : ns \in namespaces})

\* Lines 69-73 and 78-80: an entry that is no matching regular file.
Skip ==
    /\ pc = "loop"
    /\ current <= Len(items)
    /\ ~IsPackage(items[current])
    /\ match' = apk_regex_match(items[current].name)
    /\ current' = current + 1
    /\ Log("skip", 0)
    /\ UNCHANGED <<pc, items, scratch, made, fs, result, exc, txn_apks, txn_ns,
                   disk_apks, disk_ns, proc, conv, fname>>

\* process_apks without the call of insert_apk.
InsertApk_without_insert ==
    /\ pc = "loop"
    /\ current <= Len(items)
    /\ IsPackage(items[current])
    /\ match' = apk_regex_match(items[current].name)
    /\ pc' = "process_apk"
    /\ UNCHANGED <<items, current, scratch, made, fs, result, exc, txn_apks,
                   txn_ns, disk_apks, disk_ns, events, proc, conv, fname>>

\* Lines 69-75: a matching regular file; insert_apk runs first.
InsertApk ==
    /\ pc = "loop"
    /\ current <= Len(items)
    /\ IsPackage(items[current])
    /\ match' = apk_regex_match(items[current].name)
    /\ txn_apks' = Append(txn_apks, ApkRow(match'))
    /\ Log("insert_apk", 0)
    /\ pc' = "process_apk"
    /\ UNCHANGED <<items, current, scratch, made, fs, result, exc, txn_ns,
                   disk_apks, disk_ns, proc, conv, fname>>

\* Line 40: tempfile.TemporaryDirectory(dir=config.working_directory)
MakeScratch ==
    /\ pc = "process_apk"
    /\ made' = made + 1
    /\ scratch' = scratch \cup {made'}
    /\ fs' = {}
    /\ Log("mkdtemp", 0)
    /\ pc' = "extract_dex"
    /\ UNCHANGED <<items, current, match, result, exc, txn_apks, txn_ns,
                   disk_apks, disk_ns, proc, conv, fname>>

\* Lines 41-44: open the package and extract classes.dex.  ZipFile raises
\* BadZipFile for a malformed container, extract raises KeyError when the
\* container holds no classes.dex.
ExtractDex ==
    /\ pc = "extract_dex"
    /\ \E outcome \in {"ok", "BadZipFile", "KeyError"} :
        IF outcome = "ok"
        THEN /\ fs' = fs \cup {DexFile}
             /\ pc' = "convert"
             /\ exc' = exc
             /\ Log("extract_dex", 0)
        ELSE /\ exc' = outcome
             /\ pc' = "cleanup"
             /\ fs' = fs
             /\ Log("extract_dex_failed", 0)
    /\ UNCHANGED <<items, current, match, scratch, made, result, txn_apks,
                   txn_ns, disk_apks, disk_ns, proc, conv, fname>>

\* process_apk without the except clause: the converter's exception leaves
\* process_apk.
Convert_propagates ==
    /\ pc = "convert"
    /\ \E p \in BatchRuns :
        /\ proc' = p
        /\ conv' = convert_to_jar(p)
        /\ exc' = conv'.exc
        /\ IF conv'.exc = "none"
           THEN /\ fs' = fs \cup {JarFile}
                /\ pc' = "extract_jar"
                /\ Log("convert", 0)
           ELSE /\ fs' = fs
                /\ pc' = "cleanup"
                /\ Log("convert_failed", 0)
    /\ UNCHANGED <<items, current, match, scratch, made, result, txn_apks,
                   txn_ns, disk_apks, disk_ns, fname>>

\* Lines 46-52: the converter; both of its exceptions are caught and an
\* empty result is returned.
Convert ==
    /\ pc = "convert"
    /\ \E p \in BatchRuns :
        /\ proc' = p
        /\ conv' = convert_to_jar(p)
        /\ IF conv'.exc = "none"
           THEN /\ fs' = fs \cup {JarFile}
                /\ result' = result
                /\ pc' = "extract_jar"
                /\ Log("convert", 0)
           ELSE /\ fs' = fs
                /\ result' = {}
                /\ pc' = "cleanup"
                /\ Log("convert_failed", 0)
    /\ UNCHANGED <<items, current, match, scratch, made, exc, txn_apks, txn_ns,
                   disk_apks, disk_ns, fname>>

\* Lines 54-57: unpack the archive into the scratch directory.
ExtractJar ==
    /\ pc = "extract_jar"
    /\ \/ \E jar \in JarTrees :
            /\ fs' = fs \cup jar
            /\ pc' = "walk"
            /\ exc' = exc
            /\ Log("extract_jar", 0)
       \/ /\ exc' = "BadZipFile"
          /\ pc' = "cleanup"
          /\ fs' = fs
          /\ Log("extract_jar_failed", 0)
    /\ UNCHANGED <<items, current, match, scratch, made, result, txn_apks,
                   txn_ns, disk_apks, disk_ns, proc, conv, fname>>

\* Line 59: return extract_namespaces(tmp_dir)
Walk ==
    /\ pc = "walk"
    /\ result' = extract_namespaces(fs, <<>>, "")
    /\ pc' = "cleanup"
    /\ Log("walk", Cardinality(result'))
    /\ UNCHANGED <<items, current, match, scratch, made, fs, exc, txn_apks,
                   txn_ns, disk_apks, disk_ns, proc, conv, fname>>

\* process_apk removing the scratch directory on return only, as with
\* mkdtemp and a removal at the end of the function.
Cleanup_on_return_only ==
    /\ pc = "cleanup"
    /\ scratch' = IF exc = "none" THEN scratch \ {made} ELSE scratch
    /\ fs' = {}
    /\ Log("rmtree", 0)
    /\ pc' = IF exc = "none" THEN "insert_namespaces" ELSE "raised"
    /\ UNCHANGED <<items, current, match, made, result, exc, txn_apks, txn_ns,
                   disk_apks, disk_ns, proc, conv, fname>>

\* Line 40, leaving the with block: the scratch directory is removed on
\* return and on exception; an exception then leaves process_apk and
\* process_apks, which has no handler (lines 69-80).
Cleanup ==
    /\ pc = "cleanup"
    /\ scratch' = scratch \ {made}
    /\ fs' = {}
    /\ Log("rmtree", 0)
    /\ pc' = IF exc = "none" THEN "insert_namespaces" ELSE "raised"
    /\ UNCHANGED <<items, current, match, made, result, exc, txn_apks, txn_ns,
                   disk_apks, disk_ns, proc, conv, fname>>

\* insert_namespaces committing the transaction of each package.
InsertNamespaces_commits ==
    /\ pc = "insert_namespaces"
    /\ disk_ns' = disk_ns (+) txn_ns (+) NamespaceRows(match.g1, result)
    /\ disk_apks' = disk_apks \o txn_apks
    /\ txn_ns' = EmptyBag
    /\ txn_apks' = <<>>
    /\ Log("insert_namespaces", Cardinality(result))
    /\ current' = current + 1
    /\ pc' = "loop"
    /\ UNCHANGED <<items, match, scratch, made, fs, result, exc, proc, conv, fname>>

\* Lines 77 and 80: insert_namespaces, then the next entry.
InsertNamespaces ==
    /\ pc = "insert_namespaces"
    /\ txn_ns' = txn_ns (+) NamespaceRows(match.g1, result)
    /\ Log("insert_namespaces", Cardinality(result))
    /\ current' = current + 1
    /\ pc' = "loop"
    /\ UNCHANGED <<items, match, scratch, made, fs, result, exc, txn_apks,
                   disk_apks, disk_ns, proc, conv, fname>>

\* Line 69: the listing is exhausted, process_apks returns to main.
Return ==
    /\ pc = "loop"
    /\ current > Len(items)
    /\ pc' = "returned"
    /\ UNCHANGED <<items, current, match, scratch, made, fs, result, exc,
                   txn_apks, txn_ns, disk_apks, disk_ns, events, proc, conv, fname>>

\* Line 204: config.db.commit()
Commit ==
    /\ pc = "returned"
    /\ disk_apks' = disk_apks \o txn_apks
    /\ disk_ns' = disk_ns (+) txn_ns
    /\ txn_apks' = <<>>
    /\ txn_ns' = EmptyBag
    /\ pc' = "committed"
    /\ UNCHANGED <<items, current, match, scratch, made, fs, result, exc,
                   events, proc, conv, fname>>

\* Line 205: config.db.close()
Close ==
    /\ pc = "committed"
    /\ pc' = "closed"
    /\ UNCHANGED <<items, current, match, scratch, made, fs, result, exc,
                   txn_apks, txn_ns, disk_apks, disk_ns, events, proc, conv, fname>>

\* Lines 203-204: an exception out of process_apks ends main before the
\* commit; the connection is dropped and its open transaction rolled back.
Abort ==
    /\ pc = "raised"
    /\ txn_apks' = <<>>
    /\ txn_ns' = EmptyBag
    /\ pc' = "exited"
    /\ UNCHANGED <<items, current, match, scratch, made, fs, result, exc,
                   disk_apks, disk_ns, events, proc, conv, fname>>

\* Lines 200-203: argument parsing and init_database are done, the store
\* holds no row of this run, process_apks has listed the directory.
Init ==
    /\ pc = "loop"
    /\ items \in Listings
    /\ current = 1
    /\ match = NoMatch
    /\ scratch = {}
    /\ made = 0
    /\ fs = {}
    /\ result = {}
    /\ exc = "none"
    /\ txn_apks = <<>>
    /\ txn_ns = EmptyBag
    /\ disk_apks = <<>>
    /\ disk_ns = EmptyBag
    /\ events = <<>>
    /\ proc = NoProc
    /\ conv = NoConv
    /\ fname = <<>>

Next ==
    \/ Skip
    \/ InsertApk
    \/ MakeScratch
    \/ ExtractDex
    \/ Convert
    \/ ExtractJar
    \/ Walk
    \/ Cleanup
    \/ InsertNamespaces
    \/ Return
    \/ Commit
    \/ Close
    \/ Abort

Spec == Init /\ [][Next]_vars

-----------------------------------------------------------------------------
(* The three pure functions on their own, each applied to inputs drawn     *)
(* from a bounded set.                                                     *)

\* Line 72: match = apk_regex.match(name)
ParseName ==
    /\ pc = "parse"
    /\ match' = apk_regex_match(fname)
    /\ pc' = "parsed"
    /\ UNCHANGED <<items, current, scratch, made, fs, result, exc, txn_apks,
                   txn_ns, disk_apks, disk_ns, events, proc, conv, fname>>

InitParse ==
    /\ pc = "parse"
    /\ fname \in FileNames
    /\ items = <<>>
    /\ current = 1
    /\ match = NoMatch
    /\ scratch = {}
    /\ made = 0
    /\ fs = {}
    /\ result = {}
    /\ exc = "none"
    /\ txn_apks = <<>>
    /\ txn_ns = EmptyBag
    /\ disk_apks = <<>>
    /\ disk_ns = EmptyBag
    /\ events = <<>>
    /\ proc = NoProc
    /\ conv = NoConv

NextParse == ParseName

SpecParse == InitParse /\ [][NextParse]_vars

\* Lines 14-25: extract_namespaces(source_path) on the tree fs.
WalkTree ==
    /\ pc = "walk_tree"
    /\ result' = extract_namespaces(fs, <<>>, "")
    /\ pc' = "walked"
    /\ UNCHANGED <<items, current, match, scratch, made, fs, exc, txn_apks,
                   txn_ns, disk_apks, disk_ns, events, proc, conv, fname>>

InitExtract ==
    /\ pc = "walk_tree"
    /\ fs \in Trees
    /\ fname = <<>>
    /\ items = <<>>
    /\ current = 1
    /\ match = NoMatch
    /\ scratch = {}
    /\ made = 0
    /\ result = {}
    /\ exc = "none"
    /\ txn_apks = <<>>
    /\ txn_ns = EmptyBag
    /\ disk_apks = <<>>
    /\ disk_ns = EmptyBag
    /\ events = <<>>
    /\ proc = NoProc
    /\ conv = NoConv

NextExtract == WalkTree

SpecExtract == InitExtract /\ [][NextExtract]_vars

\* Lines 28-36: convert_to_jar on one run of the converter.
RunConverter ==
    /\ pc = "run_converter"
    /\ conv' = convert_to_jar(proc)
    /\ pc' = "converted"
    /\ UNCHANGED <<items, current, match, scratch, made, fs, result, exc,
                   txn_apks, txn_ns, disk_apks, disk_ns, events, proc, fname>>

InitConvert ==
    /\ pc = "run_converter"
    /\ proc \in ConverterRuns
    /\ conv = NoConv
    /\ fs = {}
    /\ fname = <<>>
    /\ items = <<>>
    /\ current = 1
    /\ match = NoMatch
    /\ scratch = {}
    /\ made = 0
    /\ result = {}
    /\ exc = "none"
    /\ txn_apks = <<>>
    /\ txn_ns = EmptyBag
    /\ disk_apks = <<>>
    /\ disk_ns = EmptyBag
    /\ events = <<>>

NextConvert == RunConverter

SpecConvert == InitConvert /\ [][NextConvert]_vars

-----------------------------------------------------------------------------
(* Vocabulary of the properties.                                           *)

Has(op, i) == \E k \in DOMAIN events : events[k].op = op /\ events[k].item = i

Count(op, i) == Cardinality({k \in DOMAIN events : events[k].op = op /\ events[k].item = i})

Packages == {i \in DOMAIN items : IsPackage(items[i])}

NonPackages == DOMAIN items \ Packages

\* The rows of table apks as the connection sees them.
ApkRows == disk_apks \o txn_apks

IsPrefix(s, t) == Len(s) <= Len(t) /\ SubSeq(t, 1, Len(s)) = s

ProcessApksReturned == pc \in {"returned", "committed", "closed"}

ProcessApksRaised == pc \in {"raised", "exited"}

InProcessApk == pc \in {"extract_dex", "convert", "extract_jar", "walk", "cleanup"}

ExtractionOps ==
    {"mkdtemp", "extract_dex", "extract_dex_failed", "convert", "convert_failed",
     "extract_jar", "extract_jar_failed", "walk", "rmtree"}

-----------------------------------------------------------------------------
(* C1: process_apks attempts every directory entry; an error raised while  *)
(* processing one package (a malformed container, a container without      *)
(* classes.dex) fails only that item and never propagates out of           *)
(* process_apks.                                                           *)
C1Claim ==
    /\ ~ProcessApksRaised
    /\ ProcessApksReturned =>
          \A i \in DOMAIN items : Has("skip", i) \/ Has("insert_apk", i)

-----------------------------------------------------------------------------
(* C2: when the converter fails for a package, the package's identity row  *)
(* has been inserted, no namespace row is inserted for it, and the loop    *)
(* goes on to the next directory entry.                                    *)
C2State ==
    \A i \in DOMAIN items :
        Has("convert_failed", i) =>
            /\ Count("insert_apk", i) = 1
            /\ pc # "exited" =>
                  \E k \in DOMAIN ApkRows :
                      ApkRows[k] = ApkRow(apk_regex_match(items[i].name))
            /\ ~Has("walk", i)
            /\ current >= i
            /\ current = i =>
                  /\ pc \in {"cleanup", "insert_namespaces"}
                  /\ exc = "none"
                  /\ result = {}
            /\ current > i =>
                  \E k \in DOMAIN events :
                      events[k] = [op |-> "insert_namespaces", item |-> i, n |-> 0]

C2Step ==
    (pc = "insert_namespaces" /\ Has("convert_failed", current)) =>
        /\ txn_ns' = txn_ns
        /\ disk_ns' = disk_ns
        /\ pc' = "loop"
        /\ current' = current + 1

\* C2: the state part holds always and the step part of every step.
C2Theorem == [] C2State /\ [][C2Step]_vars

\* A converter failure on one entry, and the next entry taken up after it.
C2Witness ==
    \E i \in DOMAIN items :
        /\ Has("convert_failed", i)
        /\ Has("insert_apk", i + 1) \/ Has("skip", i + 1)

-----------------------------------------------------------------------------
(* C3: an entry that is no regular file or whose name does not match is    *)
(* only reported as skipped: nothing is written to the store and no        *)
(* scratch directory is made for it, the batch does not abort, and every   *)
(* matching regular file of the same listing is still processed.           *)
C3Claim ==
    \A i \in NonPackages :
        /\ \A k \in DOMAIN events : events[k].item = i => events[k].op = "skip"
        /\ (Has("skip", i) /\ (ProcessApksReturned \/ ProcessApksRaised)) =>
              \A j \in Packages : Has("insert_apk", j)

\* The part of C3 that is about the skipped entry itself: the step that
\* skips an entry changes neither the store nor the scratch directories and
\* leaves the loop running at the next entry.
C3SkipFrame ==
    [][(pc = "loop" /\ current \in NonPackages) =>
          /\ UNCHANGED <<txn_apks, txn_ns, disk_apks, disk_ns, scratch, made>>
          /\ pc' = "loop"
          /\ current' = current + 1]_vars

-----------------------------------------------------------------------------
(* C4: for a matching regular file exactly one PackageRecord insert is     *)
(* issued, before any extraction step and before any NamespaceRecord       *)
(* insert for that item; PackageRecords are never updated or deleted.      *)
C4State ==
    /\ \A i \in NonPackages : Count("insert_apk", i) = 0
    /\ \A i \in Packages :
          /\ Count("insert_apk", i) <= 1
          /\ (current > i \/ (current = i /\ pc # "loop")) => Count("insert_apk", i) = 1
          /\ \A k \in DOMAIN events :
                (events[k].item = i /\ events[k].op \in ExtractionOps \cup {"insert_namespaces"})
                    => \E j \in 1..(k - 1) : events[j] = [op |-> "insert_apk", item |-> i, n |-> 0]
    /\ pc # "exited" =>
          Len(ApkRows) = Cardinality({k \in DOMAIN events : events[k].op = "insert_apk"})

\* The table only grows at its end; the one step that takes rows away is the
\* rollback of the uncommitted transaction when the process ends.
C4Step == pc' # "exited" => IsPrefix(ApkRows, ApkRows')

-----------------------------------------------------------------------------
(* C5: the scratch directory of a package no longer exists once            *)
(* process_apk has finished for it, on normal return, on converter failure *)
(* and on an exception during extraction; at most one exists at any time.  *)
C5Theorem ==
    /\ Cardinality(scratch) <= 1
    /\ ~InProcessApk => scratch = {}

\* All three exit paths taken in one batch, the last one by exception.
C5Witness ==
    /\ pc = "raised"
    /\ scratch = {}
    /\ made = 3
    /\ \E i \in DOMAIN items : Has("walk", i)
    /\ \E i \in DOMAIN items : Has("convert_failed", i)

-----------------------------------------------------------------------------
(* C9: after a batch run the persisted PackageRecords are keyed by id: no  *)
(* two rows written by the run share the same id.                          *)
C9Claim ==
    pc \in {"committed", "closed"} =>
        \A a, b \in DOMAIN disk_apks : a # b => disk_apks[a].id # disk_apks[b].id

-----------------------------------------------------------------------------
(* C10: every insert of a run stays uncommitted until the single commit    *)
(* main issues after process_apks has returned; if process_apks raises,    *)
(* the commit is never reached and no row of the run becomes durable.      *)
C10Theorem ==
    /\ pc \notin {"committed", "closed"} => (disk_apks = <<>> /\ disk_ns = EmptyBag)
    /\ pc = "exited" => (txn_apks = <<>> /\ txn_ns = EmptyBag)
    /\ pc \in {"committed", "closed"} =>
          /\ txn_apks = <<>>
          /\ txn_ns = EmptyBag
          /\ Len(disk_apks) = Cardinality({k \in DOMAIN events : events[k].op = "insert_apk"})

\* The run ended by an exception after an earlier package had been fully
\* processed and its namespace rows inserted.
C10Witness ==
    /\ pc = "exited"
    /\ \E k \in DOMAIN events : events[k].op = "insert_namespaces" /\ events[k].n > 0

-----------------------------------------------------------------------------
(* The naming convention as the specification words it, written from the   *)
(* end of the name: <primary_id>[-<secondary_id>]-<YYYY_MM_DD>.apk.        *)

IsDateString(d) ==
    /\ Len(d) = 10
    /\ \A k \in {1, 2, 3, 4, 6, 7, 9, 10} : d[k] \in Digits
    /\ d[5] = "_"
    /\ d[8] = "_"

IsApkSuffix(t) ==
    /\ Len(t) = 4
    /\ t[1] = "."
    /\ t[2] \in {"a", "A"}
    /\ t[3] \in {"p", "P"}
    /\ t[4] \in {"k", "K"}

\* The name without its last 15 characters ("-", the date, the suffix).
IdentityPart(s) == SubSeq(s, 1, Len(s) - 15)

DatePart(s) == SubSeq(s, Len(s) - 13, Len(s) - 4)

\* The primary id ends before the first hyphen of the identity part, or at
\* its end when it holds none.
PrimaryLen(h) ==
    IF \E k \in 1..Len(h) : h[k] = "-"
    THEN (CHOOSE k \in 1..Len(h) : h[k] = "-" /\ \A j \in 1..(k - 1) : h[j] # "-") - 1
    ELSE Len(h)

PrimaryPart(s) == SubSeq(IdentityPart(s), 1, PrimaryLen(IdentityPart(s)))

\* What follows the primary id and its hyphen; empty when there is none.
SecondaryPart(s) ==
    SubSeq(IdentityPart(s), PrimaryLen(IdentityPart(s)) + 2, Len(IdentityPart(s)))

\* The secondary id may be absent or empty (section 3 of the specification
\* allows an empty one); when present it holds digits only.
WellFormed(s) ==
    /\ Len(s) >= 16
    /\ s[Len(s) - 14] = "-"
    /\ IsDateString(DatePart(s))
    /\ IsApkSuffix(SubSeq(s, Len(s) - 3, Len(s)))
    /\ PrimaryLen(IdentityPart(s)) >= 1
    /\ \A k \in 1..Len(SecondaryPart(s)) : SecondaryPart(s)[k] \in Digits

-----------------------------------------------------------------------------
(* C6: the identity pattern accepts a file name if and only if the whole   *)
(* name has the form <primary_id>[-<secondary_id>]-<YYYY_MM_DD>.apk, and   *)
(* on acceptance the recovered id, numeric component and date are exactly  *)
(* those parts of the name.                                                *)
C6Claim ==
    pc = "parsed" =>
        /\ match.ok <=> WellFormed(fname)
        /\ match.ok =>
              /\ match.g1 = PrimaryPart(fname)
              /\ match.g2 = SecondaryPart(fname)
              /\ match.g3 = DatePart(fname)

\* C6 restricted to names that do not end in a newline: there the pattern
\* and the naming convention agree.
C6WithoutTrailingNewline ==
    (pc = "parsed" /\ (fname = <<>> \/ fname[Len(fname)] # NL)) =>
        /\ match.ok <=> WellFormed(fname)
        /\ match.ok =>
              /\ match.g0 = fname
              /\ match.g1 = PrimaryPart(fname)
              /\ match.g2 = SecondaryPart(fname)
              /\ match.g3 = DatePart(fname)

-----------------------------------------------------------------------------
(* C7: extract_namespaces(root) returns exactly the dot-joined directory   *)
(* paths of the directories below root, at every depth; files contribute   *)
(* nothing, every prefix of a returned path is returned, no returned       *)
(* string is empty, and a root without subdirectories yields the empty     *)
(* set.                                                                    *)
RECURSIVE JoinDots(_)
JoinDots(p) ==
    IF Len(p) = 1 THEN p[1]
    ELSE JoinDots(SubSeq(p, 1, Len(p) - 1)) \o "." \o p[Len(p)]

Dirs(t) == {e \in t : e.isdir}

C7Theorem ==
    pc = "walked" =>
        /\ result = {JoinDots(e.path) : e \in Dirs(fs)}
        /\ result = extract_namespaces(Dirs(fs), <<>>, "")
        /\ \A e \in Dirs(fs) : \A j \in 1..Len(e.path) :
              JoinDots(SubSeq(e.path, 1, j)) \in result
        /\ "" \notin result
        /\ (\A e \in fs : Len(e.path) = 1 => ~e.isdir) => result = {}

\* The tree a/b, a/c of the specification, with a file beside the
\* directories.
C7Witness ==
    /\ pc = "walked"
    /\ result = {"a", "a.b", "a.c"}
    /\ \E e \in fs : ~e.isdir

-----------------------------------------------------------------------------
(* C8: convert_to_jar returns the archive path only when the converter     *)
(* exits with status zero within the timeout and its output does not hold  *)
(* the diagnostic marker; it fails on a non-zero exit, on a timeout, and   *)
(* on a zero exit with the marker in the output.                           *)
MarkerInOutput == MarkerLine \in {proc.output[k] : k \in DOMAIN proc.output}

C8Theorem ==
    pc = "converted" =>
        /\ conv.exc = "none" <=>
              (proc.exit = 0 /\ proc.elapsed <= Timeout /\ ~MarkerInOutput)
        /\ conv.exc = "none" => conv.value = "classes.jar"
        /\ conv.exc # "none" =>
              /\ conv.exc \in {"CalledProcessError", "TimeoutExpired"}
              /\ conv.value = "none"
        /\ proc.elapsed > Timeout => conv.exc = "TimeoutExpired"

\* The silent failure: status zero in time, the marker in the output.
C8Witness ==
    /\ pc = "converted"
    /\ proc.exit = 0
    /\ proc.elapsed <= Timeout
    /\ MarkerInOutput
    /\ conv.exc = "CalledProcessError"

=============================================================================
